---- MODULE Spec2Model ----
(***************************************************************************)
(* Model of 12_datasets/coco.py: the COCO dataset import.                  *)
(*                                                                         *)
(*   Spec         the driver import_transform_load: parallel wget          *)
(*                downloads, then per archive mkdir / extractall / unlink  *)
(*                / copy_concurrent.                                       *)
(*   SpecCopy     copy_concurrent (MultithreadedCopier + shutil.copytree)  *)
(*                on small source trees, destinations and pool sizes.      *)
(*   SpecExtract  extractall on small zip archives.                        *)
(*                                                                         *)
(* The filesystem is one value fs = [files, dirs]: files maps a path (a    *)
(* sequence of components) to its content, dirs is the set of directories. *)
(***************************************************************************)
EXTENDS Integers, Sequences, FiniteSets, TLC

VARIABLES
    pc,          \* position of the main thread
    processes,   \* the Popen objects created so far (job indices, in order)
    returncode,  \* job -> None while running or not started, else <<exit status>>
    waitIdx,     \* index into processes of the wait loop
    errors,      \* the errors list of import_transform_load
    archiveIdx,  \* index of the (src, extract_dest, final_dest) tuple in the loop
    fs,          \* the filesystem
    zipf,        \* infolist() of the archive handed to extractall
    pbar,        \* tqdm bar: [n, total]
    copier,      \* arguments of the running copy_concurrent call
    queue,       \* ThreadPool task queue (sources, FIFO)
    tasks,       \* source -> [dest, st] for every task given to apply_async
    hist         \* history: what the driver has done so far

vars == <<pc, processes, returncode, waitIdx, errors, archiveIdx, fs, zipf,
          pbar, copier, queue, tasks, hist>>

(***************************************************************************)
(* Bounds of the model.                                                    *)
(***************************************************************************)
\* how many of the eight jobs / archive tuples a run of the driver carries
NumArchives == 3
\* copies that may fail in a worker during one run
MaxCopyFailures == 1
\* largest ThreadPool size tried in SpecCopy
MaxPool == 2
\* longest archive tried in SpecExtract
MaxEntries == 3

(***************************************************************************)
(* Program constants.                                                      *)
(***************************************************************************)
max_threads == 48

AllStems ==
    << "train2017", "val2017", "test2017", "unlabeled2017",
       "annotations_trainval2017", "stuff_annotations_trainval2017",
       "image_info_test2017", "image_info_unlabeled2017" >>

AllCommands ==
    << "wget http://images.cocodataset.org/zips/train2017.zip -O /tmp/train2017.zip",
       "wget http://images.cocodataset.org/zips/val2017.zip -O /tmp/val2017.zip",
       "wget http://images.cocodataset.org/zips/test2017.zip -O /tmp/test2017.zip",
       "wget http://images.cocodataset.org/zips/unlabeled2017.zip -O /tmp/unlabeled2017.zip",
       "wget http://images.cocodataset.org/annotations/annotations_trainval2017.zip -O /tmp/annotations_trainval2017.zip",
       "wget http://images.cocodataset.org/annotations/stuff_annotations_trainval2017.zip -O /tmp/stuff_annotations_trainval2017.zip",
       "wget http://images.cocodataset.org/annotations/image_info_test2017.zip -O /tmp/image_info_test2017.zip",
       "wget http://images.cocodataset.org/annotations/image_info_unlabeled2017.zip -O /tmp/image_info_unlabeled2017.zip" >>

\* The model runs the first NumArchives jobs of the list.
Jobs == 1 .. NumArchives
commands == SubSeq(AllCommands, 1, NumArchives)

\* exit statuses a wget process may end with (0 success, 4 network failure,
\* -9 killed by a signal)
RetCodes == {0, 4, -9}

\* /tmp/<stem>.zip, /tmp/<stem>/ and /vol/coco/<stem>/ of tuple k
ZipPath(k) == << "tmp", AllStems[k] \o ".zip" >>
ExtractDest(k) == << "tmp", AllStems[k] >>
FinalDest(k) == << "vol", "coco", AllStems[k] >>
destination == << "tmp", "train2017" >>

(***************************************************************************)
(* Filesystem helpers (pathlib / os semantics).                            *)
(***************************************************************************)
IsPrefix(a, b) == Len(a) <= Len(b) /\ SubSeq(b, 1, Len(a)) = a
Prefixes(p) == { SubSeq(p, 1, n) : n \in 0 .. Len(p) }
Parent(p) == SubSeq(p, 1, Len(p) - 1)
Basename(p) == p[Len(p)]
RelTo(base, p) == SubSeq(p, Len(base) + 1, Len(p))

IsFile(f, p) == p \in DOMAIN f.files
IsDir(f, p) == p \in f.dirs
Exists(f, p) == IsFile(f, p) \/ IsDir(f, p)

\* os.makedirs(p, exist_ok=True) / Path.mkdir(parents=True, exist_ok=True)
\* succeeds unless p or one of its ancestors is a regular file.
CanMakeDirs(f, p) == \A q \in Prefixes(p) : ~IsFile(f, q)
MakeDirs(f, p) == [f EXCEPT !.dirs = @ \cup Prefixes(p)]

\* open(p, "wb") succeeds when the parent is a directory and p is not one.
CanOpenWrite(f, p) == Len(p) > 0 /\ IsDir(f, Parent(p)) /\ ~IsDir(f, p)
WriteFile(f, p, content) ==
    [f EXCEPT !.files = (p :> content) @@ f.files]

RemoveFile(f, p) ==
    [f EXCEPT !.files = [q \in (DOMAIN f.files) \ {p} |-> f.files[q]]]

RootDirs == { <<>>, <<"tmp">>, <<"vol">> }
EmptyFs == [files |-> <<>>, dirs |-> RootDirs]

FilesUnder(f, d) == { q \in DOMAIN f.files : IsPrefix(d, q) /\ q # d }
DirsUnder(f, d) == { q \in f.dirs : IsPrefix(d, q) }

\* content of a target that open(..., "wb") has created or emptied and that
\* has received no data yet
Partial == [tag |-> "partial", size |-> 0]


(***************************************************************************)
(* import_transform_load, download phase (lines 131-144).                  *)
(***************************************************************************)
None == <<>>
NoCopier == [src |-> <<>>, dest |-> <<>>, threads |-> 0, stack |-> <<>>,
             errs |-> FALSE, raised |-> FALSE]
NoHist == [waited |-> <<>>, extractStarted |-> {}, extracted |-> {},
           unlinked |-> {}, copyStarted |-> {}, copied |-> {}, cause |-> "",
           failures |-> 0, written |-> {}, fs0 |-> EmptyFs]

Init ==
    /\ pc = "popen"
    /\ processes = <<>>
    /\ returncode = [j \in Jobs |-> None]
    /\ waitIdx = 1
    /\ errors = <<>>
    /\ archiveIdx = 0
    /\ fs = EmptyFs
    /\ zipf = <<>>
    /\ pbar = [n |-> 0, total |-> 0]
    /\ copier = NoCopier
    /\ queue = <<>>
    /\ tasks = <<>>
    /\ hist = NoHist

\* the list comprehension of line 132 is over once every command has a process
AllStartedEarly(procs) == Len(procs) >= 1
AllStarted(procs) == Len(procs) = Len(commands)

\* processes = [subprocess.Popen(cmd, shell=True) for cmd in commands]
Popen ==
    /\ pc = "popen"
    /\ LET j == Len(processes) + 1 IN
        /\ j <= Len(commands)
        /\ processes' = Append(processes, j)
        /\ pc' = IF AllStarted(processes') THEN "wait" ELSE "popen"
    /\ UNCHANGED <<returncode, waitIdx, errors, archiveIdx, fs, zipf, pbar,
                   copier, queue, tasks, hist>>

\* A started wget process ends on its own with some status; -O has created
\* its output file whatever the status.
ProcExit(j, rc) ==
    /\ j \in 1 .. Len(processes)
    /\ returncode[j] = None
    /\ returncode' = [returncode EXCEPT ![j] = <<rc>>]
    /\ fs' = WriteFile(fs, ZipPath(j), [tag |-> AllStems[j], size |-> 1])
    /\ UNCHANGED <<pc, processes, waitIdx, errors, archiveIdx, zipf, pbar,
                   copier, queue, tasks, hist>>

\* if returncode == 0
SucceededLax(rc) == rc <= 0
Succeeded(rc) == rc = 0

\* f"Error in downloading. {p.args!r} failed {returncode=}"
ErrorMessage(j, rc) == [args |-> commands[j], returncode |-> rc]

\* for p in processes: ends when the list is exhausted
WaitLoopDoneOnError(idx, errs) == idx > Len(processes) \/ errs # <<>>
WaitLoopDone(idx, errs) == idx > Len(processes)

\* returncode = p.wait() and the body of the loop, for one process
Wait ==
    /\ pc = "wait"
    /\ ~WaitLoopDone(waitIdx, errors)
    /\ LET j == processes[waitIdx] IN
        /\ returncode[j] # None
        /\ LET rc == returncode[j][1] IN
            /\ errors' = IF Succeeded(rc) THEN errors
                         ELSE Append(errors, ErrorMessage(j, rc))
            /\ hist' = [hist EXCEPT !.waited = Append(@, j)]
    /\ waitIdx' = waitIdx + 1
    /\ pc' = IF WaitLoopDone(waitIdx', errors') THEN "check" ELSE "wait"
    /\ UNCHANGED <<processes, returncode, archiveIdx, fs, zipf, pbar, copier,
                   queue, tasks>>

\* if errors:
ShouldRaiseAllFailed(errs) == Len(errs) = Len(commands)
ShouldRaise(errs) == errs # <<>>

\* if errors: raise RuntimeError(errors)
CheckErrors ==
    /\ pc = "check"
    /\ IF ShouldRaise(errors)
         THEN /\ pc' = "raised"
              /\ hist' = [hist EXCEPT !.cause = "download"]
              /\ UNCHANGED archiveIdx
         ELSE /\ pc' = "mkdir"
              /\ archiveIdx' = 1
              /\ UNCHANGED hist
    /\ UNCHANGED <<processes, returncode, waitIdx, errors, fs, zipf, pbar,
                   copier, queue, tasks>>

(***************************************************************************)
(* extractall (lines 53-72).                                               *)
(*                                                                         *)
(* A zip entry is [filename, file_size, data]; filename is                 *)
(* [abs, parts, slash]: abs for a name with a leading "/", slash for a     *)
(* name with a trailing "/" (ZipInfo.is_dir()); parts may hold ".."        *)
(* components.                                                             *)
(***************************************************************************)
Rel(parts) == [abs |-> FALSE, parts |-> parts, slash |-> FALSE]
DirName(parts) == [abs |-> FALSE, parts |-> parts, slash |-> TRUE]
Abs(parts) == [abs |-> TRUE, parts |-> parts, slash |-> FALSE]

is_dir(i) == i.filename.slash

\* the file a path names once the operating system has followed its ".."
\* components (the parent of the root is the root)
RECURSIVE Resolve(_)
Resolve(p) ==
    IF p = <<>> THEN <<>>
    ELSE LET r == Resolve(Parent(p)) IN
         IF Basename(p) = ".."
           THEN (IF r = <<>> THEN <<>> ELSE Parent(r))
           ELSE Append(r, Basename(p))

\* Path.mkdir(parents=True, exist_ok=True) and open() on a path that may
\* hold "..": every prefix of the path is made, or must be, a directory.
CanMakeDirsIn(f, p) == \A q \in Prefixes(p) : ~IsFile(f, Resolve(q))
MakeDirsIn(f, p) ==
    [f EXCEPT !.dirs = @ \cup { Resolve(q) : q \in Prefixes(p) }]

\* zipf.extract(i, dest): ZipFile._extract_member strips the leading "/",
\* drops the ".." components and joins the name under dest.
Sanitised(parts) == SelectSeq(parts, LAMBDA x : x # "..")
ExtractMemberPath(dest, i) == dest \o Sanitised(i.filename.parts)

\* dest / i.filename: pathlib replaces dest by an absolute right operand
\* and keeps the ".." components.
FullPath(dest, i) ==
    IF i.filename.abs THEN i.filename.parts ELSE dest \o i.filename.parts

Failed(f) == [ok |-> FALSE, fs |-> f, n |-> 0, path |-> <<>>]

\* line 67: zipf.extract(i, os.fspath(dest))
ExtractMember(f, dest, i) ==
    LET target == ExtractMemberPath(dest, i) IN
    IF ~CanMakeDirs(f, Parent(target)) THEN Failed(f)
    ELSE LET f1 == MakeDirs(f, Parent(target)) IN
         IF is_dir(i)
           THEN IF IsFile(f1, target) THEN Failed(f1)
                ELSE [ok |-> TRUE, fs |-> MakeDirs(f1, target), n |-> 0,
                      path |-> target]
           ELSE IF ~CanOpenWrite(f1, target) THEN Failed(f1)
                ELSE [ok |-> TRUE,
                      fs |-> WriteFile(f1, target,
                                       [tag |-> i.data, size |-> 0]),
                      n |-> 0, path |-> target]

\* lines 69-72: mkdir of the parent, then a streamed copy of the entry;
\* pbar.update is called with every chunk read.
ExtractStream(f, dest, i) ==
    LET full_path == FullPath(dest, i)
        target == Resolve(full_path)
    IN
    IF ~CanMakeDirsIn(f, Parent(full_path)) THEN Failed(f)
    ELSE LET f1 == MakeDirsIn(f, Parent(full_path)) IN
         IF ~CanOpenWrite(f1, target) THEN Failed(f1)
         ELSE [ok |-> TRUE,
               fs |-> WriteFile(f1, target,
                                [tag |-> i.data, size |-> i.file_size]),
               n |-> i.file_size, path |-> target]

\* the body of the loop of line 65 for one entry
ExtractEntry(f, dest, i) ==
    IF i.file_size = 0 THEN ExtractMember(f, dest, i)
    ELSE ExtractStream(f, dest, i)

\* How an archive turns out unreadable: not at all ("none"); as a whole,
\* when ZipFile(fzip) reads its directory ("badzip"); at entry `at`, when
\* zipf.open finds a bad local header ("header") or when the read that
\* follows w units of good data finds bad data ("data").
NoFail == [at |-> 0, kind |-> "none", w |-> 0]
BadZip == [at |-> 0, kind |-> "badzip", w |-> 0]

\* the entries whose data is read: zipf.extract only makes the directory of
\* an empty directory entry
Opened(i) == ~(i.file_size = 0 /\ is_dir(i))

Fails(entries) ==
    {NoFail, BadZip}
      \cup UNION { {[at |-> n, kind |-> "header", w |-> 0]}
                     \cup { [at |-> n, kind |-> "data", w |-> w] :
                              w \in 0 .. (IF entries[n].file_size = 0 THEN 0
                                          ELSE entries[n].file_size - 1) } :
                   n \in { m \in 1 .. Len(entries) : Opened(entries[m]) } }

\* The body of the loop for the entry that is unreadable.  The parent
\* directories are made first (line 70, and in zipf.extract); a bad header
\* stops zipf.open before the target is opened; bad data is found after the
\* target was created and w units were copied and counted.
ExtractUnreadable(f, dest, i, fail) ==
    LET literal == IF i.file_size = 0 THEN ExtractMemberPath(dest, i)
                   ELSE FullPath(dest, i)
        target == Resolve(literal)
        parentOk == CanMakeDirsIn(f, Parent(literal))
        f1 == IF parentOk THEN MakeDirsIn(f, Parent(literal)) ELSE f
    IN IF fail.kind = "header" \/ ~parentOk \/ ~CanOpenWrite(f1, target)
         THEN [fs |-> f1, n |-> 0]
         ELSE [fs |-> WriteFile(f1, target,
                                [tag |-> i.data, size |-> fail.w]),
               n |-> fail.w]

\* The loop of line 65 from entry idx on.  Returns the filesystem, the
\* progress count and the set of paths written.
RECURSIVE ExtractFrom(_, _, _, _, _, _, _)
ExtractFrom(f, dest, entries, idx, n, written, fail) ==
    IF idx > Len(entries)
      THEN [ok |-> TRUE, fs |-> f, n |-> n, written |-> written]
    ELSE IF idx = fail.at
      THEN LET u == ExtractUnreadable(f, dest, entries[idx], fail) IN
           [ok |-> FALSE, fs |-> u.fs, n |-> n + u.n, written |-> written]
    ELSE LET r == ExtractEntry(f, dest, entries[idx]) IN
         IF ~r.ok
           THEN [ok |-> FALSE, fs |-> r.fs, n |-> n, written |-> written]
           ELSE ExtractFrom(r.fs, dest, entries, idx + 1, n + r.n,
                            written \cup {r.path}, fail)

RECURSIVE SumSizes(_, _)
SumSizes(entries, idx) ==
    IF idx > Len(entries) THEN 0
    ELSE entries[idx].file_size + SumSizes(entries, idx + 1)

\* total=sum(getattr(i, "file_size", 0) for i in zipf.infolist())
PbarTotal(entries) == SumSizes(entries, 1)

\* the tqdm bar after the call: it is created only once ZipFile has read
\* the directory of the archive
PbarAfter(bar, entries, fail, n) ==
    IF fail.kind = "badzip" THEN bar
    ELSE [n |-> n, total |-> PbarTotal(entries)]

extractall(f, dest, entries, fail) ==
    IF fail.kind = "badzip"
      THEN [ok |-> FALSE, fs |-> f, n |-> 0, written |-> {}]
      ELSE ExtractFrom(f, dest, entries, 1, 0, {}, fail)


(***************************************************************************)
(* copy_concurrent (lines 75-95): MultithreadedCopier around               *)
(* shutil.copytree(src, dest, copy_function=copier.copy,                   *)
(* dirs_exist_ok=True).                                                    *)
(***************************************************************************)
\* the counterpart under dest of a path under src
TargetFlat(c, p) == c.dest \o << Basename(p) >>
Target(c, p) == c.dest \o RelTo(c.src, p)

\* copytree: os.makedirs(dst, exist_ok=True) for a source directory raises
\* when dst or an ancestor is a regular file.
DirFails(f, c, d) == ~CanMakeDirs(f, Target(c, d))

\* os.scandir(d): the entries of directory d
Children(f, d) ==
    { q \in (DOMAIN f.files) \cup f.dirs :
          Len(q) = Len(d) + 1 /\ IsPrefix(d, q) }

\* The walk of copytree is a stack of directories, each with the entries
\* still to handle; a directory with nothing left returns to its parent.
Frame(f, d) == [dir |-> d, todo |-> Children(f, d)]

RECURSIVE Unwind(_)
Unwind(stack) ==
    IF stack # <<>> /\ stack[Len(stack)].todo = {}
      THEN Unwind(SubSeq(stack, 1, Len(stack) - 1))
      ELSE stack

TopTodo == IF copier.stack = <<>> THEN {}
           ELSE copier.stack[Len(copier.stack)].todo

Handled(stack, p) == [stack EXCEPT ![Len(stack)].todo = @ \ {p}]

\* shutil.copytree(src, dest, ...): os.makedirs(dest, exist_ok=True), which
\* raises at once when dest cannot be made, then the walk of src
CopytreeEnter ==
    /\ pc = "copytree"
    /\ IF DirFails(fs, copier, copier.src)
         THEN /\ copier' = [copier EXCEPT !.errs = TRUE, !.stack = <<>>]
              /\ UNCHANGED fs
         ELSE /\ fs' = MakeDirs(fs, copier.dest)
              /\ copier' = [copier EXCEPT
                                !.stack = Unwind(<< Frame(fs, copier.src) >>)]
    /\ pc' = "dispatch"
    /\ UNCHANGED <<processes, returncode, waitIdx, errors, archiveIdx, zipf,
                   pbar, queue, tasks, hist>>

\* The walk reaches a subdirectory d (os.scandir gives the entries in no
\* particular order): the recursive copytree makes its counterpart and
\* walks it; when that fails the error is recorded, the subtree skipped and
\* shutil.Error raised once the walk is over.  The workers run meanwhile.
CopytreeRecurse(d) ==
    /\ pc = "dispatch"
    /\ d \in TopTodo
    /\ IsDir(fs, d)
    /\ IF DirFails(fs, copier, d)
         THEN /\ copier' = [copier EXCEPT
                                !.errs = TRUE,
                                !.stack = Unwind(Handled(copier.stack, d))]
              /\ UNCHANGED fs
         ELSE /\ fs' = MakeDirs(fs, Target(copier, d))
              /\ copier' = [copier EXCEPT
                                !.stack = Unwind(Append(Handled(copier.stack, d),
                                                        Frame(fs, d)))]
    /\ UNCHANGED <<pc, processes, returncode, waitIdx, errors, archiveIdx,
                   zipf, pbar, queue, tasks, hist>>

\* The walk reaches a file p: MultithreadedCopier.copy,
\* self.pool.apply_async(shutil.copy2, args=(source, dest))
Dispatch(p) ==
    /\ pc = "dispatch"
    /\ p \in TopTodo
    /\ IsFile(fs, p)
    /\ copier' = [copier EXCEPT !.stack = Unwind(Handled(copier.stack, p))]
    /\ tasks' = (p :> [dest |-> Target(copier, p), st |-> "pending",
                       fdst |-> <<>>]) @@ tasks
    /\ queue' = Append(queue, p)
    /\ UNCHANGED <<pc, processes, returncode, waitIdx, errors, archiveIdx, fs,
                   zipf, pbar, hist>>

\* copytree is over (it returns, or raises shutil.Error): __exit__ runs
\* pool.close() and enters pool.join().
CopytreeDone ==
    /\ pc = "dispatch"
    /\ copier.stack = <<>>
    /\ pc' = "join"
    /\ UNCHANGED <<processes, returncode, waitIdx, errors, archiveIdx, fs,
                   zipf, pbar, copier, queue, tasks, hist>>

\* the tasks a worker holds: shutil.copy2 has been called and is not over
Running(tsk) ==
    { t \in DOMAIN tsk : tsk[t].st \in {"running", "opened", "written"} }
Finished(tsk) == { t \in DOMAIN tsk : tsk[t].st \in {"ok", "failed"} }

\* a pool worker takes the next task of the queue and calls shutil.copy2
WorkerTake ==
    /\ queue # <<>>
    /\ Cardinality(Running(tasks)) < copier.threads
    /\ tasks' = [tasks EXCEPT ![Head(queue)].st = "running"]
    /\ queue' = Tail(queue)
    /\ UNCHANGED <<pc, processes, returncode, waitIdx, errors, archiveIdx, fs,
                   zipf, pbar, copier, hist>>

\* shutil.copy2(src, dst): "if dst specifies a directory, the file will be
\* copied into dst using the base filename from src"
Copy2Target(f, source, dst) ==
    IF IsDir(f, dst) THEN dst \o << Basename(source) >> ELSE dst

\* shutil.copy2, first part: the target is chosen and opened with "wb",
\* which creates it or empties the file that was there.  The copy may fail
\* before that (nothing changes); the exception stays in the AsyncResult
\* nobody reads.  The main thread and the other workers run between this
\* step and the next ones.
WorkerOpen(t, outcome) ==
    /\ t \in DOMAIN tasks
    /\ tasks[t].st = "running"
    /\ LET target == Copy2Target(fs, t, tasks[t].dest) IN
        IF ~CanOpenWrite(fs, target)
          THEN /\ outcome = "fail_open"
               /\ tasks' = [tasks EXCEPT ![t].st = "failed"]
               /\ UNCHANGED <<fs, hist>>
          ELSE \/ /\ outcome = "ok"
                  /\ fs' = WriteFile(fs, target, Partial)
                  /\ tasks' = [tasks EXCEPT ![t].st = "opened",
                                            ![t].fdst = target]
                  /\ UNCHANGED hist
               \/ /\ outcome = "fail_open"
                  /\ hist.failures < MaxCopyFailures
                  /\ tasks' = [tasks EXCEPT ![t].st = "failed"]
                  /\ hist' = [hist EXCEPT !.failures = @ + 1]
                  /\ UNCHANGED fs
    /\ UNCHANGED <<pc, processes, returncode, waitIdx, errors, archiveIdx,
                   zipf, pbar, copier, queue>>

\* shutil.copy2, second part: the data is copied into the open target; when
\* that fails the target is left as it is, truncated.
WorkerWrite(t, outcome) ==
    /\ t \in DOMAIN tasks
    /\ tasks[t].st = "opened"
    /\ \/ /\ outcome = "ok"
          /\ fs' = WriteFile(fs, tasks[t].fdst, fs.files[t])
          /\ tasks' = [tasks EXCEPT ![t].st = "written"]
          /\ UNCHANGED hist
       \/ /\ outcome = "fail_write"
          /\ hist.failures < MaxCopyFailures
          /\ tasks' = [tasks EXCEPT ![t].st = "failed"]
          /\ hist' = [hist EXCEPT !.failures = @ + 1]
          /\ UNCHANGED fs
    /\ UNCHANGED <<pc, processes, returncode, waitIdx, errors, archiveIdx,
                   zipf, pbar, copier, queue>>

\* shutil.copy2, last part: copystat, then the task is over.  When copystat
\* fails the target keeps the data and the task has failed.
WorkerFinish(t, outcome) ==
    /\ t \in DOMAIN tasks
    /\ tasks[t].st = "written"
    /\ \/ /\ outcome = "ok"
          /\ tasks' = [tasks EXCEPT ![t].st = "ok"]
          /\ UNCHANGED hist
       \/ /\ outcome = "fail_stat"
          /\ hist.failures < MaxCopyFailures
          /\ tasks' = [tasks EXCEPT ![t].st = "failed"]
          /\ hist' = [hist EXCEPT !.failures = @ + 1]
    /\ UNCHANGED <<pc, processes, returncode, waitIdx, errors, archiveIdx, fs,
                   zipf, pbar, copier, queue>>

\* pool.join() returns once the workers have run every task given to the
\* pool before close()
JoinReadyQueueOnly(tsk, q) == q = <<>>
JoinReady(tsk, q) == q = <<>> /\ Finished(tsk) = DOMAIN tsk

\* what leaves the with block: the exception of copytree, if any; the
\* results of the tasks are never looked at
SurfacedWithResults(errs, tsk) ==
    errs \/ \E t \in DOMAIN tsk : tsk[t].st = "failed"
Surfaced(errs, tsk) == errs

\* __exit__: self.pool.join(), then copy_concurrent returns or re-raises
PoolJoin ==
    /\ pc = "join"
    /\ JoinReady(tasks, queue)
    /\ pc' = "copy_returned"
    /\ copier' = [copier EXCEPT !.raised = Surfaced(copier.errs, tasks)]
    /\ UNCHANGED <<processes, returncode, waitIdx, errors, archiveIdx, fs,
                   zipf, pbar, queue, tasks, hist>>


(***************************************************************************)
(* import_transform_load, the loop of lines 146-199.                       *)
(***************************************************************************)
\* The archive downloaded by job k: a directory named after the split and
\* one file in it.
Archive(k) ==
    << [filename |-> DirName(<< AllStems[k] >>), file_size |-> 0,
        data |-> AllStems[k]],
       [filename |-> Rel(<< AllStems[k], "img" >>), file_size |-> 1,
        data |-> AllStems[k]] >>

\* line 193: extract_dest.mkdir() raises when the path exists
Mkdir ==
    /\ pc = "mkdir"
    /\ LET d == ExtractDest(archiveIdx) IN
        IF Exists(fs, d) \/ ~IsDir(fs, Parent(d))
          THEN /\ pc' = "failed"
               /\ hist' = [hist EXCEPT !.cause = "mkdir"]
               /\ UNCHANGED fs
          ELSE /\ pc' = "extract"
               /\ fs' = MakeDirs(fs, d)
               /\ UNCHANGED hist
    /\ UNCHANGED <<processes, returncode, waitIdx, errors, archiveIdx, zipf,
                   pbar, copier, queue, tasks>>

\* the statement that follows a successful extractall
AfterExtractSkipUnlink == "copy"
AfterExtract == "unlink"

\* line 194: extractall(src, destination)
Extract(fail) ==
    /\ pc = "extract"
    /\ fail \in Fails(Archive(archiveIdx))
    /\ IF ~IsFile(fs, ZipPath(archiveIdx))
         THEN /\ fail = NoFail
              /\ pc' = "failed"
              /\ hist' = [hist EXCEPT !.cause = "extract",
                                      !.extractStarted = @ \cup {archiveIdx}]
              /\ UNCHANGED <<fs, zipf, pbar>>
         ELSE LET r == extractall(fs, destination, Archive(archiveIdx), fail)
              IN
              /\ zipf' = Archive(archiveIdx)
              /\ fs' = r.fs
              /\ pbar' = PbarAfter(pbar, Archive(archiveIdx), fail, r.n)
              /\ pc' = IF r.ok THEN AfterExtract ELSE "failed"
              /\ hist' = [hist EXCEPT
                     !.written = r.written,
                     !.extractStarted = @ \cup {archiveIdx},
                     !.extracted = IF r.ok THEN @ \cup {archiveIdx} ELSE @,
                     !.cause = IF r.ok THEN @ ELSE "extract"]
    /\ UNCHANGED <<processes, returncode, waitIdx, errors, archiveIdx, copier,
                   queue, tasks>>

\* line 195: src.unlink()
Unlink ==
    /\ pc = "unlink"
    /\ IF IsFile(fs, ZipPath(archiveIdx))
         THEN /\ fs' = RemoveFile(fs, ZipPath(archiveIdx))
              /\ pc' = "copy"
              /\ hist' = [hist EXCEPT !.unlinked = @ \cup {archiveIdx}]
         ELSE /\ pc' = "failed"
              /\ hist' = [hist EXCEPT !.cause = "unlink"]
              /\ UNCHANGED fs
    /\ UNCHANGED <<processes, returncode, waitIdx, errors, archiveIdx, zipf,
                   pbar, copier, queue, tasks>>

\* lines 196-198 and 92: copy_concurrent(destination, final_dest) builds a
\* pool of max_threads workers and calls copytree
CopyConcurrent ==
    /\ pc = "copy"
    /\ copier' = [src |-> destination, dest |-> FinalDest(archiveIdx),
                  threads |-> max_threads, stack |-> <<>>, errs |-> FALSE,
                  raised |-> FALSE]
    /\ tasks' = <<>>
    /\ queue' = <<>>
    /\ pc' = "copytree"
    /\ hist' = [hist EXCEPT !.copyStarted = @ \cup {archiveIdx}, !.fs0 = fs]
    /\ UNCHANGED <<processes, returncode, waitIdx, errors, archiveIdx, fs,
                   zipf, pbar>>

\* copy_concurrent is back: next tuple of the loop, or print("Done")
LoopNext ==
    /\ pc = "copy_returned"
    /\ IF copier.raised
         THEN /\ pc' = "failed"
              /\ hist' = [hist EXCEPT !.cause = "copy"]
              /\ UNCHANGED archiveIdx
         ELSE /\ hist' = [hist EXCEPT !.copied = @ \cup {archiveIdx}]
              /\ IF archiveIdx = NumArchives
                   THEN pc' = "done" /\ UNCHANGED archiveIdx
                   ELSE pc' = "mkdir" /\ archiveIdx' = archiveIdx + 1
    /\ UNCHANGED <<processes, returncode, waitIdx, errors, fs, zipf, pbar,
                   copier, queue, tasks>>

Outcomes == {"ok", "fail_open", "fail_write", "fail_stat"}

Next ==
    \/ Popen
    \/ \E j \in Jobs, rc \in RetCodes : ProcExit(j, rc)
    \/ Wait
    \/ CheckErrors
    \/ Mkdir
    \/ \E fail \in UNION { Fails(Archive(k)) : k \in Jobs } : Extract(fail)
    \/ Unlink
    \/ CopyConcurrent
    \/ CopytreeEnter
    \/ \E d \in TopTodo : CopytreeRecurse(d)
    \/ \E p \in TopTodo : Dispatch(p)
    \/ CopytreeDone
    \/ WorkerTake
    \/ \E t \in DOMAIN tasks, o \in Outcomes : WorkerOpen(t, o)
    \/ \E t \in DOMAIN tasks, o \in Outcomes : WorkerWrite(t, o)
    \/ \E t \in DOMAIN tasks, o \in Outcomes : WorkerFinish(t, o)
    \/ PoolJoin
    \/ LoopNext

Spec == Init /\ [][Next]_vars


(***************************************************************************)
(* copy_concurrent on its own: MultithreadedCopier(max_threads) for every  *)
(* pool size up to MaxPool, source trees of up to MaxFiles files and a     *)
(* destination that may already hold something.                            *)
(***************************************************************************)
MaxFiles == 3

SrcRoot == << "src" >>
DstRoot == << "dst" >>
SrcNames == << << "a" >>, << "sub", "b" >>, << "c" >>, << "sub", "d" >>,
               << "e" >>, << "sub", "f" >> >>
Old == [tag |-> "old", size |-> 2]

\* a source tree: the directories src, src/sub and src/empty, and the files
\* named by S
SourceTree(S) ==
    [files |-> [p \in { SrcRoot \o SrcNames[i] : i \in S } |->
                    [tag |-> Basename(p), size |-> 1]],
     dirs |-> { <<>>, SrcRoot, SrcRoot \o << "sub" >>,
                SrcRoot \o << "empty" >> }]

\* what the destination holds before the call
DestChoices ==
    { [files |-> <<>>, dirs |-> {}],
      [files |-> <<>>, dirs |-> { DstRoot, DstRoot \o << "sub" >> }],
      [files |-> (DstRoot \o << "a" >>) :> Old, dirs |-> { DstRoot }],
      [files |-> (DstRoot \o << "zz" >>) :> Old, dirs |-> { DstRoot }],
      [files |-> (DstRoot \o << "sub" >>) :> Old, dirs |-> { DstRoot }],
      [files |-> <<>>, dirs |-> { DstRoot, DstRoot \o << "a" >> }] }

Overlay(a, b) == [files |-> b.files @@ a.files, dirs |-> a.dirs \cup b.dirs]

InitCopy ==
    /\ pc = "copytree"
    /\ processes = <<>>
    /\ returncode = [j \in Jobs |-> None]
    /\ waitIdx = 1
    /\ errors = <<>>
    /\ archiveIdx = 0
    /\ \E S \in SUBSET (1 .. MaxFiles), d \in DestChoices :
           fs = Overlay(SourceTree(S), d)
    /\ zipf = <<>>
    /\ pbar = [n |-> 0, total |-> 0]
    /\ \E n \in 1 .. MaxPool :
           copier = [src |-> SrcRoot, dest |-> DstRoot, threads |-> n,
                     stack |-> <<>>, errs |-> FALSE, raised |-> FALSE]
    /\ queue = <<>>
    /\ tasks = <<>>
    /\ hist = [NoHist EXCEPT !.fs0 = fs]

NextCopy ==
    \/ CopytreeEnter
    \/ \E d \in TopTodo : CopytreeRecurse(d)
    \/ \E p \in TopTodo : Dispatch(p)
    \/ CopytreeDone
    \/ WorkerTake
    \/ \E t \in DOMAIN tasks, o \in Outcomes : WorkerOpen(t, o)
    \/ \E t \in DOMAIN tasks, o \in Outcomes : WorkerWrite(t, o)
    \/ \E t \in DOMAIN tasks, o \in Outcomes : WorkerFinish(t, o)
    \/ PoolJoin

SpecCopy == InitCopy /\ [][NextCopy]_vars

(***************************************************************************)
(* extractall on its own: every archive of up to MaxEntries entries drawn  *)
(* from EntryChoices, into a destination that is empty or not.             *)
(***************************************************************************)
EntryChoices ==
    { [filename |-> Rel(<< "a" >>), file_size |-> 1, data |-> "a1"],
      [filename |-> Rel(<< "a" >>), file_size |-> 2, data |-> "a2"],
      [filename |-> DirName(<< "d" >>), file_size |-> 0, data |-> ""],
      [filename |-> Rel(<< "d", "b" >>), file_size |-> 1, data |-> "b"],
      [filename |-> Rel(<< "e" >>), file_size |-> 0, data |-> ""],
      [filename |-> Abs(<< "x" >>), file_size |-> 1, data |-> "x"],
      [filename |-> DirName(<< "g" >>), file_size |-> 2, data |-> "g"],
      [filename |-> Rel(<< "d" >>), file_size |-> 1, data |-> "d"],
      [filename |-> Rel(<< "..", "u" >>), file_size |-> 1, data |-> "u"],
      [filename |-> Rel(<< "..", "e" >>), file_size |-> 0, data |-> ""] }

Archives ==
    UNION { [1 .. n -> EntryChoices] : n \in 0 .. MaxEntries }

ScratchFs == MakeDirs(EmptyFs, destination)

InitExtract ==
    /\ pc = "extractall"
    /\ processes = <<>>
    /\ returncode = [j \in Jobs |-> None]
    /\ waitIdx = 1
    /\ errors = <<>>
    /\ archiveIdx = 0
    /\ fs \in { ScratchFs, WriteFile(ScratchFs, destination \o << "old" >>, Old) }
    /\ zipf \in Archives
    /\ pbar = [n |-> 0, total |-> 0]
    /\ copier = NoCopier
    /\ queue = <<>>
    /\ tasks = <<>>
    /\ hist = [NoHist EXCEPT !.fs0 = fs]

\* extractall(fzip, dest) from the first entry to the last, or to the entry
\* that cannot be read or written
ExtractAll(fail) ==
    /\ pc = "extractall"
    /\ fail \in Fails(zipf)
    /\ LET r == extractall(fs, destination, zipf, fail) IN
        /\ fs' = r.fs
        /\ pbar' = PbarAfter(pbar, zipf, fail, r.n)
        /\ pc' = IF r.ok THEN "extracted" ELSE "extract_failed"
        /\ hist' = [hist EXCEPT !.written = r.written]
    /\ UNCHANGED <<processes, returncode, waitIdx, errors, archiveIdx, zipf,
                   copier, queue, tasks>>

NextExtract == \E fail \in Fails(zipf) : ExtractAll(fail)

SpecExtract == InitExtract /\ [][NextExtract]_vars


(***************************************************************************)
(* Properties of the download phase.                                       *)
(***************************************************************************)
Exited(j) == returncode[j] # None
Status(j) == returncode[j][1]
AllJobs == [j \in 1 .. NumArchives |-> j]

\* C1: every download process is started before the driver waits on any of
\* them: while a wait is pending or has returned, no command of the list
\* is without its process.
C1_AllStartedBeforeAnyWait ==
    (pc = "wait" \/ hist.waited # <<>>) => processes = AllJobs

\* the driver has waited on the first job while later ones are still running
C1_Witness ==
    /\ Len(hist.waited) = 1
    /\ pc = "wait"
    /\ \E j \in Jobs : ~Exited(j)

\* C2: a failed download does not cut the join short: the jobs are waited
\* on in submission order, and the aggregated error is raised only once
\* the exit status of every job has been observed.
C2_JoinNotCutShort ==
    /\ hist.waited = SubSeq(AllJobs, 1, Len(hist.waited))
    /\ \A i \in 1 .. Len(hist.waited) : Exited(hist.waited[i])
    /\ pc = "raised" => hist.waited = AllJobs

\* the first job failed, a later one succeeded, and all were waited on
C2_Witness ==
    /\ pc = "raised"
    /\ Status(1) # 0
    /\ Status(NumArchives) = 0
    /\ Len(hist.waited) = NumArchives

\* the entries the error list must hold: one per job that exited non-zero,
\* in submission order, with the job's command and status
ExpectedErrors ==
    LET all == [j \in 1 .. NumArchives |->
                    [args |-> AllCommands[j], returncode |-> Status(j)]]
        NonZero(m) == m.returncode # 0
    IN SelectSeq(all, NonZero)

DownloadPhaseOver == pc \notin {"popen", "wait", "check"}

\* C3: the download phase returns without error iff every job exited 0;
\* otherwise it raises one error listing exactly the jobs that exited
\* non-zero, each with its command and status.
C3_RaisesIffSomeNonZero ==
    DownloadPhaseOver =>
        /\ \A j \in Jobs : Exited(j)
        /\ (pc = "raised") <=> (\E j \in Jobs : Status(j) # 0)
        /\ errors = ExpectedErrors
        /\ pc = "raised" => errors # <<>>

\* two jobs failed, one of them killed by a signal, and one succeeded
C3_Witness ==
    /\ pc = "raised"
    /\ Len(errors) = 2
    /\ \E j \in Jobs : Status(j) = 0
    /\ \E j \in Jobs : Status(j) < 0

(***************************************************************************)
(* Properties of copy_concurrent (checked under SpecCopy).                 *)
(***************************************************************************)
\* C4: copy_concurrent is a barrier on its pool: when it returns, normally
\* or because copytree raised, every copy given to the pool has finished.
C4_ReturnIsBarrier ==
    pc = "copy_returned" =>
        /\ queue = <<>>
        /\ copier.stack = <<>>
        /\ \A t \in DOMAIN tasks : tasks[t].st \in {"ok", "failed"}

\* copytree raised after giving copies to a pool smaller than their number,
\* and the call is back
C4_Witness ==
    /\ pc = "copy_returned"
    /\ copier.raised
    /\ copier.threads = 1
    /\ Cardinality(DOMAIN tasks) >= 2

SrcFiles0 == FilesUnder(hist.fs0, copier.src)
DestFiles0 == FilesUnder(hist.fs0, copier.dest)
DestFiles == FilesUnder(fs, copier.dest)
Targets0 == { copier.dest \o RelTo(copier.src, p) : p \in SrcFiles0 }

\* C7 as stated: after copy_concurrent returns the destination holds
\* exactly K files, each with the content of its source file.
C7_ExactlyKFiles ==
    (pc = "copy_returned" /\ ~copier.raised) =>
        /\ Cardinality(DestFiles) = Cardinality(SrcFiles0)
        /\ \A p \in SrcFiles0 :
               LET q == copier.dest \o RelTo(copier.src, p) IN
               IsFile(fs, q) /\ fs.files[q] = hist.fs0.files[p]

\* no directory of the destination bears the name of a source file
NoKindClash == \A q \in Targets0 : ~IsDir(hist.fs0, q)

\* C7 amended: when copy_concurrent returns without raising and no
\* destination directory clashes with a source file, every source file was
\* given to the pool; each one whose copy succeeded is at the same relative
\* path of the destination with the source's content (a same-named file is
\* overwritten); the files the destination held under other names are still
\* there, unchanged; nothing else appears; so the destination holds exactly
\* K files when no copy failed and it held no file under another name.
\* An existing destination directory is accepted: the call raises only
\* when a regular file stands where a directory is needed.
C7_CopiedOverExisting ==
    pc = "copy_returned" =>
        /\ copier.raised <=>
               \E d \in DirsUnder(hist.fs0, copier.src) :
                   \E q \in Prefixes(copier.dest \o RelTo(copier.src, d)) :
                       IsFile(hist.fs0, q)
        /\ (~copier.raised /\ NoKindClash) =>
            /\ DOMAIN tasks = SrcFiles0
            /\ \A p \in SrcFiles0 :
                   LET q == copier.dest \o RelTo(copier.src, p) IN
                   tasks[p].st = "ok" =>
                       IsFile(fs, q) /\ fs.files[q] = hist.fs0.files[p]
            /\ DestFiles0 \subseteq DestFiles
            /\ DestFiles \subseteq DestFiles0 \cup Targets0
            /\ \A q \in DestFiles0 \ Targets0 :
                   fs.files[q] = hist.fs0.files[q]
            /\ ((\A p \in SrcFiles0 : tasks[p].st = "ok")
                    /\ DestFiles0 \subseteq Targets0) =>
                   Cardinality(DestFiles) = Cardinality(SrcFiles0)

\* three files copied by one worker into a destination that already held a
\* file named like one of them, which now has the source's content
C7_Witness ==
    /\ pc = "copy_returned"
    /\ ~copier.raised
    /\ copier.threads = 1
    /\ Cardinality(SrcFiles0) = 3
    /\ \A p \in SrcFiles0 : tasks[p].st = "ok"
    /\ IsFile(hist.fs0, DstRoot \o << "a" >>)
    /\ fs.files[DstRoot \o << "a" >>] = hist.fs0.files[SrcRoot \o << "a" >>]


(***************************************************************************)
(* Properties of the loop of the driver.                                   *)
(***************************************************************************)
\* C5: per archive the driver extracts, then deletes the archive, then
\* copies, one archive at a time: an archive is deleted only after its
\* extraction finished, its copy starts only after the deletion, the next
\* extraction starts only after the previous copy is complete, and at the
\* end no archive file is left on scratch space.
C5_ExtractDeleteCopyInOrder ==
    /\ \A k \in Jobs :
        /\ k \in hist.unlinked =>
               k \in hist.extracted /\ ~IsFile(fs, ZipPath(k))
        /\ k \in hist.copyStarted => k \in hist.unlinked
        /\ k \in hist.copied => k \in hist.copyStarted
        /\ (k \in hist.extractStarted /\ k > 1) => (k - 1) \in hist.copied
        /\ (k \in hist.copyStarted /\ k \notin hist.copied /\ pc # "failed")
               => archiveIdx = k
    /\ pc \in {"copytree", "dispatch", "join", "copy_returned"} =>
           archiveIdx \in hist.copyStarted
    /\ (DOMAIN tasks # Finished(tasks)) => pc \in {"dispatch", "join"}
    /\ pc = "done" =>
           /\ hist.copied = Jobs
           /\ \A k \in Jobs : ~IsFile(fs, ZipPath(k))

\* the success message is reached
C5_Witness ==
    /\ pc = "done"
    /\ hist.unlinked = Jobs
    /\ hist.failures = 0

\* the file entries of archive k, as paths relative to the extraction root
ArchiveFiles(k) ==
    { Archive(k)[n].filename.parts :
          n \in { m \in 1 .. Len(Archive(k)) : ~is_dir(Archive(k)[m]) } }

\* C6: after normal completion the final destination of archive k holds
\* exactly the entries extracted from archive k and none of another archive
\* (stated for the runs in which no copy failed).
C6_DestinationMirrorsOwnArchive ==
    (pc = "done" /\ hist.failures = 0) =>
        \A k \in Jobs :
            { RelTo(FinalDest(k), p) : p \in FilesUnder(fs, FinalDest(k)) }
                = ArchiveFiles(k)

\* C8: a copy that fails in a worker is never surfaced: copy_concurrent
\* returns normally whatever the outcome of the copies, and the driver
\* never stops because of one.
C8_CopyFailuresNotSurfaced ==
    /\ pc = "copy_returned" =>
           /\ ~copier.raised
           /\ DOMAIN tasks = Finished(tasks)
    /\ pc = "failed" => hist.cause \in {"mkdir", "extract", "unlink"}
    /\ hist.failures > 0 => hist.cause \in {"", "extract"}

\* the success message is reached although a copy failed on the way
C8_Witness ==
    /\ pc = "done"
    /\ hist.failures > 0
    /\ hist.copied = Jobs

\* C10: failures gate every later step.  Once a download job has exited
\* non-zero nothing is ever extracted, deleted or copied and the success
\* message is not reached; when the extraction of archive k fails the
\* driver stops there: archive k is neither deleted nor copied and no later
\* archive is touched.
C10_Gated ==
    /\ (\E j \in Jobs : Exited(j) /\ Status(j) # 0) =>
        /\ pc \in {"popen", "wait", "check", "raised"}
        /\ hist.extractStarted = {}
        /\ hist.unlinked = {}
        /\ hist.copyStarted = {}
        /\ fs.dirs = RootDirs
    /\ (pc = "failed" /\ hist.cause = "extract") =>
        /\ IsFile(fs, ZipPath(archiveIdx))
        /\ archiveIdx \notin hist.extracted \cup hist.unlinked
                                 \cup hist.copyStarted
        /\ hist.extractStarted = 1 .. archiveIdx
        /\ hist.copied = 1 .. (archiveIdx - 1)
        /\ FilesUnder(fs, FinalDest(archiveIdx)) = {}

\* no statement runs after the exception
C10_Terminal == pc \notin {"raised", "failed"}

C10_FailuresGateLaterSteps == []C10_Gated /\ [][C10_Terminal]_vars

\* the extraction of the second archive broke off on bad data, leaving a
\* truncated file, after the first archive went through
C10_Witness ==
    /\ pc = "failed"
    /\ hist.cause = "extract"
    /\ archiveIdx = 2
    /\ hist.copied = {1}
    /\ IsFile(fs, destination \o << "val2017", "img" >>)
    /\ fs.files[destination \o << "val2017", "img" >>].size = 0

(***************************************************************************)
(* Properties of extractall (checked under SpecExtract).                   *)
(***************************************************************************)
RECURSIVE SumFileSizes(_, _)
SumFileSizes(f, S) ==
    IF S = {} THEN 0
    ELSE LET p == CHOOSE q \in S : TRUE IN
         f.files[p].size + SumFileSizes(f, S \ {p})

RECURSIVE DeclaredSize(_, _)
DeclaredSize(entries, idx) ==
    IF idx > Len(entries) THEN 0
    ELSE (IF is_dir(entries[idx]) THEN 0 ELSE entries[idx].file_size)
             + DeclaredSize(entries, idx + 1)

\* the files this call wrote that lie under the destination
WrittenUnderDest ==
    { p \in hist.written : IsFile(fs, p) /\ IsPrefix(destination, p) }

\* a directory entry with no entry below it
IsEmptyDirEntry(n) ==
    /\ is_dir(zipf[n])
    /\ \A m \in 1 .. Len(zipf) :
           m # n => ~IsPrefix(zipf[n].filename.parts, zipf[m].filename.parts)

ExtractedRight ==
    /\ SumFileSizes(fs, WrittenUnderDest) = DeclaredSize(zipf, 1)
    /\ pbar.n = DeclaredSize(zipf, 1)
    /\ \A n \in 1 .. Len(zipf) :
           IsEmptyDirEntry(n) =>
               LET d == destination \o zipf[n].filename.parts IN
               IsDir(fs, d) /\ FilesUnder(fs, d) = {}

\* C9: for every archive, when extractall completes the sizes of the files
\* written under the destination add up to the declared sizes of the
\* non-directory entries, so does the progress count, and an empty
\* directory entry gives an empty directory.
C9_SizesAddUp == pc = "extracted" => ExtractedRight

\* an archive whose only entry is a file with a name that leaves the
\* destination (a leading "/" or a ".." component) was extracted: the file
\* was written outside the destination and nothing under it
EscapedDestination ==
    /\ pc = "extracted"
    /\ Len(zipf) = 1
    /\ zipf[1].file_size > 0
    /\ zipf[1].filename.abs \/ ".." \in { zipf[1].filename.parts[k] :
                                           k \in 1 .. Len(zipf[1].filename.parts) }
    /\ WrittenUnderDest = {}
    /\ \E p \in hist.written : IsFile(fs, p) /\ ~IsPrefix(destination, p)
    /\ pbar.n = zipf[1].file_size

\* the entries have pairwise different names that stay under the
\* destination (no leading "/", no ".."), and the directory entries declare
\* size 0
WellFormed(entries) ==
    /\ \A n, m \in 1 .. Len(entries) :
           n # m => entries[n].filename.parts # entries[m].filename.parts
    /\ \A n \in 1 .. Len(entries) :
           /\ ~entries[n].filename.abs
           /\ \A k \in 1 .. Len(entries[n].filename.parts) :
                  entries[n].filename.parts[k] # ".."
           /\ is_dir(entries[n]) => entries[n].file_size = 0

\* On those archives the sums do agree: the code departs from C9 only on
\* names that leave the destination, repeated names and directory entries
\* that declare data.
SizesAddUpWellFormed ==
    (pc = "extracted" /\ WellFormed(zipf)) => ExtractedRight

\* an archive of an empty directory, a file of two bytes and an empty file
\* was extracted into a destination that already held a file
WellFormedExtracted ==
    /\ pc = "extracted"
    /\ WellFormed(zipf)
    /\ Len(zipf) = 3
    /\ pbar.n = 2
    /\ \E n \in 1 .. 3 : IsEmptyDirEntry(n)
    /\ \E n \in 1 .. 3 : ~is_dir(zipf[n]) /\ zipf[n].file_size = 0
    /\ FilesUnder(hist.fs0, destination) # {}

====
